---- MODULE Spec2Model ----
(***************************************************************************)
(* vergeml/display2.py: the spinner display.  A process-wide registry      *)
(* (_GlobalOutput) keeps a stack of running Spinner sessions and at most   *)
(* one _SpinnerThread worker; while a session is registered sys.stdout and *)
(* sys.stderr are replaced by _FakeOut interceptors that post every write  *)
(* as an event on the worker's queue.  The worker owns the real streams.   *)
(*                                                                         *)
(* Text is a sequence of characters.  One element is one character, except *)
(* that a whole ANSI escape sequence (what _ANSI_REMOVER matches) is one   *)
(* element: "ESC[32m", "ESC[31m", "ESC[0m".  The ten braille frames of     *)
(* _SpinnerThread.chars are "F0".."F9", the check mark is "OK" and the     *)
(* cross is "XX"; each of these is one character of width one.             *)
(***************************************************************************)
EXTENDS Integers, Sequences, FiniteSets, TLC

\* ------------------------------------------------------------------ bounds
MaxWorkers == 2
MaxStarts == 2
MaxPosts == 2
MaxTicks == 1
MaxMisuse == 1
MaxCurrent == 58

\* --------------------------------------------------------------- constants
_ANSI_GREEN == 32
_ANSI_RED == 31
NumFrames == 10

Spinners == {1, 2}
Reasons == {"done", "cancel", "fail"}
Streams == {"stdout", "stderr"}
SeqThreads == {1}
ConcThreads == {1, 2}
WorkerIds == 1..MaxWorkers

Whitespace == {" ", "\n", "\r"}
AnsiSeqs == {"ESC[32m", "ESC[31m", "ESC[0m"}
chars == <<"F0", "F1", "F2", "F3", "F4", "F5", "F6", "F7", "F8", "F9">>
Glyphs == {chars[i] : i \in 1..NumFrames}

\* The texts callers post: a short line, a blank one and a multi-line one.
Payloads ==
    { <<"a">>,
      <<" ", "\n">>,
      <<"a", "b", "\n", "c">> }

\* Spinner.message of the two Spinner objects of the model.
message(s) == IF s = 1 THEN <<"p">> ELSE <<"q", "q">>

\* -------------------------------------------------------------- str methods
RECURSIVE lstrip(_)
lstrip(text) ==
    IF text = <<>> THEN <<>>
    ELSE IF Head(text) \in Whitespace THEN lstrip(Tail(text))
    ELSE text

RECURSIVE rstrip(_)
rstrip(text) ==
    IF text = <<>> THEN <<>>
    ELSE IF text[Len(text)] \in Whitespace THEN rstrip(SubSeq(text, 1, Len(text) - 1))
    ELSE text

strip(text) == rstrip(lstrip(text))

\* str.split("\n"): the pieces between newlines, empty pieces kept.
RECURSIVE split(_)
split(text) ==
    IF \A i \in 1..Len(text) : text[i] # "\n" THEN <<text>>
    ELSE LET k == CHOOSE i \in 1..Len(text) :
                     text[i] = "\n" /\ \A j \in 1..(i - 1) : text[j] # "\n"
         IN <<SubSeq(text, 1, k - 1)>> \o split(SubSeq(text, k + 1, Len(text)))

Spaces(n) == [i \in 1..n |-> " "]

_ANSI_REMOVER(text) == SelectSeq(text, LAMBDA c : c \notin AnsiSeqs)

_text_len(text) == Len(_ANSI_REMOVER(strip(text)))

_text_ljust(text, prev_len) ==
    LET cur_len == _text_len(text)
    IN IF cur_len < prev_len THEN text \o Spaces(prev_len - cur_len) ELSE text

\* ------------------------------------------------------------ the terminal
\* Both real streams are the same terminal.  term.row is the row the cursor
\* is on, term.col the cursor's column (0-based), term.rows the rows above,
\* each with the stream whose newline ended it.
TermInit == [rows |-> <<>>, row |-> <<>>, col |-> 0]

\* Printing the characters seg from the cursor on: they replace the cells
\* they cover and the cursor ends behind them.
TermPrint(term, seg) ==
    [term EXCEPT
        !.row = [i \in 1..(IF Len(term.row) > term.col + Len(seg)
                           THEN Len(term.row) ELSE term.col + Len(seg)) |->
                    IF i > term.col /\ i <= term.col + Len(seg)
                    THEN seg[i - term.col] ELSE term.row[i]],
        !.col = term.col + Len(seg)]

\* A carriage return moves the cursor to column 0; a newline ends the row.
TermControl(term, stream, c) ==
    IF c = "\r" THEN [term EXCEPT !.col = 0]
    ELSE [rows |-> Append(term.rows, [by |-> stream, cells |-> term.row]),
          row |-> <<>>, col |-> 0]

\* The terminal after the stream wrote text, which holds no escape sequence.
\* (Each step's result is bound as a value, x \in {e}, before it is used.)
RECURSIVE TermShow(_, _, _)
TermShow(term, stream, text) ==
    IF \A i \in 1..Len(text) : text[i] \notin {"\r", "\n"}
    THEN TermPrint(term, text)
    ELSE LET k == CHOOSE i \in 1..Len(text) :
                     /\ text[i] \in {"\r", "\n"}
                     /\ \A j \in 1..(i - 1) : text[j] \notin {"\r", "\n"}
         IN CHOOSE r \in { TermShow(t1, stream, rest) :
                              t1 \in {TermControl(TermPrint(term, SubSeq(text, 1, k - 1)),
                                                  stream, text[k])},
                              rest \in {SubSeq(text, k + 1, Len(text))} } : TRUE

\* The terminal after the stream wrote text: escape sequences print nothing
\* and do not move the cursor.
TermWrite(term, stream, text) ==
    CHOOSE r \in { TermShow(term, stream, shown) :
                      shown \in {SelectSeq(text, LAMBDA c : c \notin AnsiSeqs)} } : TRUE

RECURSIVE WriteAll(_, _, _)
WriteAll(term, stream, texts) ==
    IF texts = <<>> THEN term
    ELSE CHOOSE r \in { WriteAll(t1, stream, Tail(texts)) :
                           t1 \in {TermWrite(term, stream, Head(texts))} } : TRUE

\* ------------------------------------------------------------------- state
VARIABLES
    spinner_thread,  \* _GlobalOutput._spinner_thread: 0 (None) or a worker
    spinners,        \* _GlobalOutput._spinners
    sys_stdout,      \* what sys.stdout is bound to: "real" or "fake"
    sys_stderr,      \* what sys.stderr is bound to
    with_color,      \* Spinner.with_color (Terminal.supports_ansi_escapes())
    nworkers,        \* _SpinnerThread objects constructed so far
    w_state,         \* per worker: "none", "new", "loop", "final", "acked",
                     \*             "dead", "crashed"
    rq,              \* per worker: _rq, the events posted to it
    wq,              \* per worker: _wq, its acknowledgements
    timeout,         \* per worker: run's timeout is .05 (TRUE) or None
    msg,             \* per worker: run's msg
    prev_len,        \* per worker: run's prev_len
    frame,           \* per worker: frames handed out by next(frames)
    term,            \* the terminal behind _REAL_STDOUT and _REAL_STDERR
    pc,              \* per caller thread: the statement it is at
    arg,             \* per caller thread: the locals of the call it is in
    last,            \* per caller thread: its last call and how it ended
    current,         \* ProgressSpinner.current of spinner 1
    nstarts,         \* Spinner.start() calls made
    nposts,          \* display()/write() calls made
    nticks,          \* queue.Empty timeouts taken
    nmisuse,         \* stop() calls made out of LIFO order
    nstops,          \* stop() calls that returned
    errSubmitted     \* the payloads posted as 'stderr' events, in order

regVars == <<spinner_thread, spinners, sys_stdout, sys_stderr>>
workerVars == <<nworkers, w_state, rq, wq, timeout, msg, prev_len, frame>>
callerVars == <<pc, arg, last, current>>
countVars == <<nstarts, nposts, nticks, nmisuse, nstops, with_color>>
vars == <<regVars, workerVars, term, callerVars, countVars, errSubmitted>>

NoArg == [s |-> 0, stream |-> "", msg |-> <<>>, w |-> 0]
NoCall == [op |-> "", lifo |-> TRUE, ret |-> ""]

Init ==
    /\ spinner_thread = 0
    /\ spinners = <<>>
    /\ sys_stdout = "real"
    /\ sys_stderr = "real"
    /\ with_color \in BOOLEAN
    /\ nworkers = 0
    /\ w_state = [w \in WorkerIds |-> "none"]
    /\ rq = [w \in WorkerIds |-> <<>>]
    /\ wq = [w \in WorkerIds |-> <<>>]
    /\ timeout = [w \in WorkerIds |-> FALSE]
    /\ msg = [w \in WorkerIds |-> <<>>]
    /\ prev_len = [w \in WorkerIds |-> 0]
    /\ frame = [w \in WorkerIds |-> 0]
    /\ term = TermInit
    /\ pc = [t \in ConcThreads |-> "idle"]
    /\ arg = [t \in ConcThreads |-> NoArg]
    /\ last = [t \in ConcThreads |-> NoCall]
    /\ current = 0
    /\ nstarts = 0
    /\ nposts = 0
    /\ nticks = 0
    /\ nmisuse = 0
    /\ nstops = 0
    /\ errSubmitted = <<>>

\* ------------------------------------------------------------------ Spinner
_wrap_color(text, color) ==
    IF with_color
    THEN <<IF color = _ANSI_GREEN THEN "ESC[32m" ELSE "ESC[31m">> \o text \o <<"ESC[0m">>
    ELSE text

\* stop_msg composed from the text the spinner shows instead of self.message.
stop_msg_shown(s, reason) ==
    LET m == (IF spinner_thread = 0 THEN message(s) ELSE msg[spinner_thread]) \o <<".">>
    IN IF reason = "done"
       THEN _wrap_color(<<"OK">>, _ANSI_GREEN) \o <<" ", "D", "O", "N", "E", " ">> \o m
       ELSE IF reason = "cancel"
       THEN <<"!", " ", "C", "A", "N", "C", "E", "L", "E", "D", " ">> \o m
       ELSE _wrap_color(<<"XX">>, _ANSI_RED) \o <<" ", "F", "A", "I", "L", "E", "D", " ">> \o m

\* The msg Spinner.stop composes for deregister_spinner.
stop_msg(s, reason) ==
    LET m == message(s) \o <<".">>
    IN IF reason = "done"
       THEN _wrap_color(<<"OK">>, _ANSI_GREEN) \o <<" ", "D", "O", "N", "E", " ">> \o m
       ELSE IF reason = "cancel"
       THEN <<"!", " ", "C", "A", "N", "C", "E", "L", "E", "D", " ">> \o m
       ELSE _wrap_color(<<"XX">>, _ANSI_RED) \o <<" ", "F", "A", "I", "L", "E", "D", " ">> \o m

\* A call returns, or an exception leaves it: the caller is between calls again.
Return(t, ret) ==
    /\ pc' = [pc EXCEPT ![t] = "idle"]
    /\ arg' = [arg EXCEPT ![t] = NoArg]
    /\ last' = [last EXCEPT ![t].ret = ret]
    /\ UNCHANGED current

Goto(t, label) ==
    /\ pc' = [pc EXCEPT ![t] = label]
    /\ UNCHANGED <<arg, last, current>>

\* The spinner on top of _GlobalOutput._spinners, 0 when there is none.
Top == IF spinners = <<>> THEN 0 ELSE spinners[Len(spinners)]

\* Threads inside register_spinner that may still construct a worker.
Constructing == Cardinality({u \in DOMAIN pc : pc[u] \in {"reg_check", "reg_new"}})

\* Spinner.start(): register_spinner(self), then display the principal message.
start(t, s) ==
    /\ pc[t] = "idle"
    /\ nstarts < MaxStarts
    /\ nworkers + Constructing < MaxWorkers
    /\ nstarts' = nstarts + 1
    /\ pc' = [pc EXCEPT ![t] = "reg_check"]
    /\ arg' = [arg EXCEPT ![t] = [NoArg EXCEPT !.s = s]]
    /\ last' = [last EXCEPT ![t] = [op |-> "call", lifo |-> TRUE, ret |-> ""]]
    /\ UNCHANGED <<regVars, workerVars, term, current, nposts, nticks, nmisuse, nstops, with_color,
                   errSubmitted>>

\* Spinner.stop(reason): compose msg, then deregister_spinner(self, msg).
stop(t, s, reason) ==
    LET lifo == Top = s
    IN /\ pc[t] = "idle"
       /\ lifo \/ nmisuse < MaxMisuse
       /\ nmisuse' = IF lifo THEN nmisuse ELSE nmisuse + 1
       /\ pc' = [pc EXCEPT ![t] = "dereg_pop"]
       /\ arg' = [arg EXCEPT ![t] = [NoArg EXCEPT !.s = s, !.msg = stop_msg(s, reason)]]
       /\ last' = [last EXCEPT ![t] = [op |-> "stop", lifo |-> lifo, ret |-> ""]]
       /\ UNCHANGED <<regVars, workerVars, term, current, nstarts, nposts, nticks, nstops, with_color,
                      errSubmitted>>

\* The exception that leaves the body of a with-block, "None" when none does.
ExcTypes == {"None", "KeyboardInterrupt", "ValueError"}

\* Spinner.__enter__: self.start(); return self
__enter__(t, s) == start(t, s)

\* __exit__ calling stop('fail') for every exception.
__exit__always_fail(t, s, exc_type) ==
    /\ pc[t] = "idle"
    /\ Top = s
    /\ pc' = [pc EXCEPT ![t] = "dereg_pop"]
    /\ arg' = [arg EXCEPT ![t] = [NoArg EXCEPT !.s = s,
                  !.msg = stop_msg(s, IF exc_type = "None" THEN "done" ELSE "fail")]]
    /\ last' = [last EXCEPT ![t] = [op |-> "exit", lifo |-> TRUE, ret |-> "",
                                     exc |-> exc_type]]
    /\ UNCHANGED <<regVars, workerVars, term, current, countVars, errSubmitted>>

\* Spinner.__exit__(exc_type, exc_val, exc_tb): choose the reason, then
\* self.stop(reason); it returns None, so the exception goes on.
__exit__(t, s, exc_type) ==
    LET reason == IF exc_type = "KeyboardInterrupt" THEN "cancel"
                  ELSE IF exc_type # "None" THEN "fail"
                  ELSE "done"
    IN /\ pc[t] = "idle"
       /\ Top = s
       /\ pc' = [pc EXCEPT ![t] = "dereg_pop"]
       /\ arg' = [arg EXCEPT ![t] = [NoArg EXCEPT !.s = s, !.msg = stop_msg(s, reason)]]
       /\ last' = [last EXCEPT ![t] = [op |-> "exit", lifo |-> TRUE, ret |-> "",
                                        exc |-> exc_type]]
       /\ UNCHANGED <<regVars, workerVars, term, current, countVars, errSubmitted>>

\* Spinner.display(msg): _GlobalOutput.display('stdout', msg).
display(t, text) ==
    /\ pc[t] = "idle"
    /\ nposts < MaxPosts
    /\ nposts' = nposts + 1
    /\ pc' = [pc EXCEPT ![t] = "disp_assert"]
    /\ arg' = [arg EXCEPT ![t] = [NoArg EXCEPT !.stream = "stdout", !.msg = text]]
    /\ last' = [last EXCEPT ![t] = [op |-> "call", lifo |-> TRUE, ret |-> ""]]
    /\ UNCHANGED <<regVars, workerVars, term, current, nstarts, nticks, nmisuse, nstops, with_color,
                   errSubmitted>>

\* ---------------------------------------------------------- ProgressSpinner
\* The counts and totals update is called with; total 0 stands for a total
\* that is None or 0, which line 262 treats alike.
Counts == {0, 1, 28, 29}
Totals == {0, 100}

\* 2^k mod t, without the power itself.
Pow2Mod(k, t) ==
    LET f[i \in 0..k] == IF i = 0 THEN 1 % t ELSE (2 * f[i - 1]) % t
    IN f[k]

\* The e with 2^(-e) <= c/t < 2^(1-e): c/t as a double has its unit in the
\* last place at 2^(-(52+e)).
LeadExp(c, t) ==
    LET AtLeast(e) == IF e >= 0 THEN c * 2^e >= t ELSE c >= t * 2^(0 - e)
    IN CHOOSE e \in -8..8 : AtLeast(e) /\ ~AtLeast(e - 1)

\* int(c / t * 100) in IEEE-754 double arithmetic, round to nearest even,
\* c > 0 and t > 0.  With s = 52 + LeadExp(c, t) and c * 2^s = q * t + r, the
\* quotient c / t is the double (q + u) / 2^s, u = 1 when it is rounded up.
\* When 100 * c / t is not an integer the errors are far smaller than its
\* distance to one, and the result is its floor n.  When it is the integer n,
\* the exact product is n + 100 * (u * t - r) / (t * 2^s): not below n unless
\* the quotient was rounded down (u = 0, r > 0), and then the product rounds
\* back to n exactly when 100 * r <= t * 2^E, half the gap between n and the
\* double below it, and to a double below n otherwise, which int() cuts to
\* n - 1.
float_perc(c, t) ==
    LET n == (100 * c) \div t
        e == LeadExp(c, t)
        s == 52 + e
        r == ((c % t) * Pow2Mod(s, t)) % t
        qbit == (2 * (((c % t) * Pow2Mod(s - 1, t)) % t)) \div t
        down == 2 * r < t \/ (2 * r = t /\ qbit = 0)
        K == IF n = 1 THEN -1 ELSE CHOOSE k \in 0..8 : 2^k < n /\ 2^(k + 1) >= n
    IN IF (100 * c) % t # 0 \/ r = 0 \/ ~down THEN n
       ELSE IF 100 * r <= t * 2^(e + K - 1) THEN n
       ELSE n - 1

\* str(n) for n >= 0, a sequence of digits.
RECURSIVE Digits(_)
Digits(n) ==
    IF n < 10 THEN <<SubSeq(<<"0", "1", "2", "3", "4", "5", "6", "7", "8", "9">>, n + 1, n + 1)[1]>>
    ELSE Digits(n \div 10) \o Digits(n % 10)

\* '[{:>3}%] {}'.format(perc, text)
format_perc(perc, text) ==
    LET d == Digits(perc)
    IN <<"[">> \o Spaces(IF Len(d) < 3 THEN 3 - Len(d) ELSE 0) \o d \o <<"%", "]", " ">> \o text

\* The msg update displays once self.current is cur.
update_msg(cur, total) ==
    (IF total # 0
     THEN format_perc(IF cur = 0 THEN 0 ELSE float_perc(cur, total), message(1))
     ELSE message(1)) \o <<".", ".", ".">>

\* ProgressSpinner.update(count, total) on spinner 1: add count to
\* self.current, then self.display(msg + "...").
update(t, count, total) ==
    /\ pc[t] = "idle"
    /\ nposts < MaxPosts
    /\ current + count <= MaxCurrent
    /\ current' = current + count
    /\ nposts' = nposts + 1
    /\ pc' = [pc EXCEPT ![t] = "disp_assert"]
    /\ arg' = [arg EXCEPT ![t] = [NoArg EXCEPT !.stream = "stdout",
                                               !.msg = update_msg(current + count, total)]]
    /\ last' = [last EXCEPT ![t] = [op |-> "update", lifo |-> TRUE, ret |-> "",
                                     total |-> total]]
    /\ UNCHANGED <<regVars, workerVars, term, nstarts, nticks, nmisuse, nstops, with_color,
                   errSubmitted>>

\* sys.stdout.write(text) or sys.stderr.write(text) by any code of the process,
\* when the name is bound to the interceptor: _FakeOut.write(text).
write(t, stream, text) ==
    /\ pc[t] = "idle"
    /\ nposts < MaxPosts
    /\ (IF stream = "stdout" THEN sys_stdout ELSE sys_stderr) = "fake"
    /\ nposts' = nposts + 1
    /\ pc' = [pc EXCEPT ![t] = "disp_assert"]
    /\ arg' = [arg EXCEPT ![t] = [NoArg EXCEPT !.stream = stream, !.msg = text]]
    /\ last' = [last EXCEPT ![t] = [op |-> "call", lifo |-> TRUE, ret |-> ""]]
    /\ UNCHANGED <<regVars, workerVars, term, current, nstarts, nticks, nmisuse, nstops, with_color,
                   errSubmitted>>

\* ------------------------------------------------------------ _GlobalOutput
\* register_spinner, line 160: if not _GlobalOutput._spinner_thread
reg_check(t) ==
    /\ pc[t] = "reg_check"
    /\ Goto(t, IF spinner_thread = 0 THEN "reg_new" ELSE "reg_append")
    /\ UNCHANGED <<regVars, workerVars, term, countVars, errSubmitted>>

\* line 163: _GlobalOutput._spinner_thread = _SpinnerThread()
reg_new(t) ==
    /\ pc[t] = "reg_new"
    /\ nworkers < MaxWorkers
    /\ nworkers' = nworkers + 1
    /\ w_state' = [w_state EXCEPT ![nworkers + 1] = "new"]
    /\ spinner_thread' = nworkers + 1
    /\ Goto(t, "reg_start")
    /\ UNCHANGED <<spinners, sys_stdout, sys_stderr, rq, wq, timeout, msg, prev_len,
                   frame, term, countVars, errSubmitted>>

\* line 164: _GlobalOutput._spinner_thread.start(), on whatever worker the
\* attribute holds now.  Thread.start() raises RuntimeError on a thread that was
\* started before, and None has no start().
reg_start(t) ==
    /\ pc[t] = "reg_start"
    /\ IF spinner_thread = 0
       THEN Return(t, "AttributeError") /\ UNCHANGED w_state
       ELSE IF w_state[spinner_thread] # "new"
       THEN Return(t, "RuntimeError") /\ UNCHANGED w_state
       ELSE /\ w_state' = [w_state EXCEPT ![spinner_thread] = "loop"]
            /\ Goto(t, "reg_out")
    /\ UNCHANGED <<regVars, nworkers, rq, wq, timeout, msg, prev_len, frame, term,
                   countVars, errSubmitted>>

\* line 165: sys.stdout = _FakeOut('stdout')
reg_out(t) ==
    /\ pc[t] = "reg_out"
    /\ sys_stdout' = "fake"
    /\ Goto(t, "reg_err")
    /\ UNCHANGED <<spinner_thread, spinners, sys_stderr, workerVars, term, countVars,
                   errSubmitted>>

\* line 166: sys.stderr = _FakeOut('stderr')
reg_err(t) ==
    /\ pc[t] = "reg_err"
    /\ sys_stderr' = "fake"
    /\ Goto(t, "reg_append")
    /\ UNCHANGED <<spinner_thread, spinners, sys_stdout, workerVars, term, countVars,
                   errSubmitted>>

\* line 168: _GlobalOutput._spinners.append(spinner); register_spinner returns
\* and Spinner.start goes on to display(self.message + "...") (line 211).
reg_append(t) ==
    /\ pc[t] = "reg_append"
    /\ spinners' = Append(spinners, arg[t].s)
    /\ pc' = [pc EXCEPT ![t] = "disp_assert"]
    /\ arg' = [arg EXCEPT ![t].stream = "stdout",
                          ![t].msg = message(arg[t].s) \o <<".", ".", ".">>]
    /\ UNCHANGED <<last, current, spinner_thread, sys_stdout, sys_stderr, workerVars, term,
                   countVars, errSubmitted>>

\* _GlobalOutput.display, line 152: assert _GlobalOutput._spinner_thread
disp_assert(t) ==
    /\ pc[t] = "disp_assert"
    /\ IF spinner_thread = 0 THEN Return(t, "AssertionError") ELSE Goto(t, "disp_put")
    /\ UNCHANGED <<regVars, workerVars, term, countVars, errSubmitted>>

\* line 153: _GlobalOutput._spinner_thread.display(stream, msg), which is
\* _SpinnerThread.display: self._rq.put((stream, msg))
disp_put(t) ==
    /\ pc[t] = "disp_put"
    /\ IF spinner_thread = 0
       THEN Return(t, "AttributeError") /\ UNCHANGED <<rq, errSubmitted>>
       ELSE /\ rq' = [rq EXCEPT ![spinner_thread] =
                         Append(@, [action |-> arg[t].stream, payload |-> arg[t].msg])]
            /\ errSubmitted' = IF arg[t].stream = "stderr"
                               THEN Append(errSubmitted, arg[t].msg)
                               ELSE errSubmitted
            /\ Return(t, "ok")
    /\ UNCHANGED <<regVars, nworkers, w_state, wq, timeout, msg, prev_len, frame, term,
                   countVars>>

\* deregister_spinner, line 174: assert _GlobalOutput._spinners.pop() == spinner.
\* list.pop() raises IndexError on an empty list; otherwise the pop is done
\* before the comparison is made.
dereg_pop(t) ==
    /\ pc[t] = "dereg_pop"
    /\ IF spinners = <<>>
       THEN Return(t, "IndexError") /\ UNCHANGED spinners
       ELSE /\ spinners' = SubSeq(spinners, 1, Len(spinners) - 1)
            /\ IF spinners[Len(spinners)] = arg[t].s
               THEN Goto(t, "dereg_check")
               ELSE Return(t, "AssertionError")
    /\ UNCHANGED <<spinner_thread, sys_stdout, sys_stderr, workerVars, term, countVars,
                   errSubmitted>>

\* dereg_check with the test inverted.
dereg_check_inverted(t) ==
    /\ pc[t] = "dereg_check"
    /\ Goto(t, IF spinners # <<>> THEN "dereg_stop" ELSE "dereg_display")
    /\ UNCHANGED <<regVars, workerVars, term, countVars, errSubmitted>>

\* line 176: if not _GlobalOutput._spinners
dereg_check(t) ==
    /\ pc[t] = "dereg_check"
    /\ Goto(t, IF spinners = <<>> THEN "dereg_stop" ELSE "dereg_display")
    /\ UNCHANGED <<regVars, workerVars, term, countVars, errSubmitted>>

\* line 179: _GlobalOutput._spinner_thread.stop(msg), first half, which is
\* _SpinnerThread.stop line 118: self._rq.put(('stop', msg))
dereg_stop(t) ==
    /\ pc[t] = "dereg_stop"
    /\ IF spinner_thread = 0
       THEN Return(t, "AttributeError") /\ UNCHANGED rq
       ELSE /\ rq' = [rq EXCEPT ![spinner_thread] =
                         Append(@, [action |-> "stop", payload |-> arg[t].msg])]
            /\ pc' = [pc EXCEPT ![t] = "dereg_wait"]
            /\ arg' = [arg EXCEPT ![t].w = spinner_thread]
            /\ UNCHANGED <<last, current>>
    /\ UNCHANGED <<regVars, nworkers, w_state, wq, timeout, msg, prev_len, frame, term,
                   countVars, errSubmitted>>

\* _SpinnerThread.stop returning without the worker's acknowledgement.
dereg_wait_nowait(t) ==
    /\ pc[t] = "dereg_wait"
    /\ Goto(t, "dereg_out")
    /\ UNCHANGED <<regVars, workerVars, term, countVars, errSubmitted>>

\* _SpinnerThread.stop line 119: assert self._wq.get() == 'stop', a get that
\* blocks until the worker has put its acknowledgement.
dereg_wait(t) ==
    /\ pc[t] = "dereg_wait"
    /\ wq[arg[t].w] # <<>>
    /\ wq' = [wq EXCEPT ![arg[t].w] = Tail(@)]
    /\ IF Head(wq[arg[t].w]) = "stop" THEN Goto(t, "dereg_out") ELSE Return(t, "AssertionError")
    /\ UNCHANGED <<regVars, nworkers, w_state, rq, timeout, msg, prev_len, frame, term,
                   countVars, errSubmitted>>

\* line 180: sys.stdout = _REAL_STDOUT
dereg_out(t) ==
    /\ pc[t] = "dereg_out"
    /\ sys_stdout' = "real"
    /\ Goto(t, "dereg_err")
    /\ UNCHANGED <<spinner_thread, spinners, sys_stderr, workerVars, term, countVars,
                   errSubmitted>>

\* line 181: sys.stderr = _REAL_STDERR
dereg_err(t) ==
    /\ pc[t] = "dereg_err"
    /\ sys_stderr' = "real"
    /\ Goto(t, "dereg_clear")
    /\ UNCHANGED <<spinner_thread, spinners, sys_stdout, workerVars, term, countVars,
                   errSubmitted>>

\* dereg_clear, forgetting to discard the worker.
dereg_clear_keep(t) ==
    /\ pc[t] = "dereg_clear"
    /\ Return(t, "ok")
    /\ nstops' = nstops + 1
    /\ UNCHANGED <<regVars, workerVars, term, nstarts, nposts, nticks, nmisuse,
                   with_color, errSubmitted>>

\* line 183: _GlobalOutput._spinner_thread = None
dereg_clear(t) ==
    /\ pc[t] = "dereg_clear"
    /\ spinner_thread' = 0
    /\ Return(t, "ok")
    /\ nstops' = nstops + 1
    /\ UNCHANGED <<spinners, sys_stdout, sys_stderr, workerVars, term, nstarts, nposts,
                   nticks, nmisuse, with_color, errSubmitted>>

\* dereg_display stopping the worker, as the last deregistration does.
dereg_display_stop(t) ==
    /\ pc[t] = "dereg_display"
    /\ spinner_thread # 0
    /\ rq' = [rq EXCEPT ![spinner_thread] =
                 Append(@, [action |-> "stop", payload |-> arg[t].msg])]
    /\ nstops' = nstops + 1
    /\ Return(t, "ok")
    /\ UNCHANGED <<regVars, nworkers, w_state, wq, timeout, msg, prev_len, frame, term,
                   nstarts, nposts, nticks, nmisuse, with_color, errSubmitted>>

\* line 186: _GlobalOutput._spinner_thread.display('stdout', msg)
dereg_display(t) ==
    /\ pc[t] = "dereg_display"
    /\ IF spinner_thread = 0
       THEN Return(t, "AttributeError") /\ UNCHANGED <<rq, nstops>>
       ELSE /\ rq' = [rq EXCEPT ![spinner_thread] =
                         Append(@, [action |-> "stdout", payload |-> arg[t].msg])]
            /\ nstops' = nstops + 1
            /\ Return(t, "ok")
    /\ UNCHANGED <<regVars, nworkers, w_state, wq, timeout, msg, prev_len, frame, term,
                   nstarts, nposts, nticks, nmisuse, with_color, errSubmitted>>

\* ----------------------------------------------------------- _SpinnerThread
\* run._write_stdout's text: "\r" + next(frames) + " " + text
stdout_text(w, text) == <<"\r", chars[frame[w] + 1], " ">> \o text

\* run._write_stdout: the terminal after _REAL_STDOUT.write(_text_ljust(text, prev_len))
_write_stdout(tm, w, text, prev) ==
    CHOOSE r \in { TermWrite(tm, "stdout", out) :
                      out \in {_text_ljust(stdout_text(w, text), prev)} } : TRUE

\* run._write_stderr: one write per line of text; the first writes
\* "\r" + _text_ljust(text, prev_len) + "\n", every other one text + "\n".
_write_stderr(tm, text, prev) ==
    CHOOSE r \in { WriteAll(tm, "stderr", writes) :
                      writes \in {[idx \in 1..Len(split(text)) |->
                                     IF idx = 1
                                     THEN <<"\r">> \o _text_ljust(text, prev) \o <<"\n">>
                                     ELSE text \o <<"\n">>]} } : TRUE

\* run._write_final: "\r" + _text_ljust(text, prev_len) + "\n"
_write_final(tm, text, prev) ==
    CHOOSE r \in { TermWrite(tm, "stdout", out) :
                      out \in {<<"\r">> \o _text_ljust(text, prev) \o <<"\n">>} } : TRUE

\* The worker is about to write to a real stream: it holds an event that
\* makes it write, or its wait on the queue times out.
Writing(w) ==
    /\ w_state[w] = "loop"
    /\ IF rq[w] = <<>> THEN timeout[w]
       ELSE Head(rq[w]).action = "stop" \/ strip(Head(rq[w]).payload) # <<>>

\* run: _REAL_STDOUT.write or _REAL_STDERR.write raises (a closed or broken
\* terminal).  Nothing in run catches it: the exception ends the thread.
run_raise(w) ==
    /\ Writing(w)
    /\ w_state' = [w_state EXCEPT ![w] = "crashed"]
    /\ UNCHANGED <<regVars, nworkers, rq, wq, timeout, msg, prev_len, frame, term,
                   callerVars, countVars, errSubmitted>>

\* run's 'stdout' branch without the test for a blank payload.
run_stdout_any(w) ==
    /\ w_state[w] = "loop"
    /\ rq[w] # <<>>
    /\ Head(rq[w]).action = "stdout"
    /\ LET payload == strip(Head(rq[w]).payload)
       IN /\ rq' = [rq EXCEPT ![w] = Tail(@)]
          /\ timeout' = [timeout EXCEPT ![w] = TRUE]
          /\ msg' = [msg EXCEPT ![w] = payload]
          /\ term' = _write_stdout(term, w, payload, prev_len[w])
          /\ prev_len' = [prev_len EXCEPT ![w] = _text_len(stdout_text(w, payload))]
          /\ frame' = [frame EXCEPT ![w] = (@ + 1) % NumFrames]
          /\ UNCHANGED <<w_state, wq>>
    /\ UNCHANGED <<regVars, nworkers, callerVars, countVars, errSubmitted>>

\* run, lines 87-97: a 'stdout' event.
run_stdout(w) ==
    /\ w_state[w] = "loop"
    /\ rq[w] # <<>>
    /\ Head(rq[w]).action = "stdout"
    /\ LET payload == strip(Head(rq[w]).payload)
       IN IF payload = <<>>
          THEN /\ rq' = [rq EXCEPT ![w] = Tail(@)]
               /\ timeout' = [timeout EXCEPT ![w] = TRUE]
               /\ UNCHANGED <<w_state, wq, msg, prev_len, frame, term>>
          ELSE /\ rq' = [rq EXCEPT ![w] = Tail(@)]
               /\ timeout' = [timeout EXCEPT ![w] = TRUE]
               /\ msg' = [msg EXCEPT ![w] = payload]
               /\ term' = _write_stdout(term, w, payload, prev_len[w])
               /\ prev_len' = [prev_len EXCEPT ![w] = _text_len(stdout_text(w, payload))]
               /\ frame' = [frame EXCEPT ![w] = (@ + 1) % NumFrames]
               /\ UNCHANGED <<w_state, wq>>
    /\ UNCHANGED <<regVars, nworkers, callerVars, countVars, errSubmitted>>

\* run's 'stderr' branch taking the payload for the message to animate.
run_stderr_as_message(w) ==
    /\ w_state[w] = "loop"
    /\ rq[w] # <<>>
    /\ Head(rq[w]).action = "stderr"
    /\ LET payload == strip(Head(rq[w]).payload)
       IN IF payload = <<>>
          THEN /\ rq' = [rq EXCEPT ![w] = Tail(@)]
               /\ UNCHANGED <<w_state, wq, timeout, msg, prev_len, frame, term>>
          ELSE /\ rq' = [rq EXCEPT ![w] = Tail(@)]
               /\ msg' = [msg EXCEPT ![w] = payload]
               /\ term' = CHOOSE r \in { _write_stdout(t1, w, payload, 0) :
                                           t1 \in {_write_stderr(term, payload, prev_len[w])} } : TRUE
               /\ prev_len' = [prev_len EXCEPT ![w] = _text_len(stdout_text(w, payload))]
               /\ frame' = [frame EXCEPT ![w] = (@ + 1) % NumFrames]
               /\ UNCHANGED <<w_state, wq, timeout>>
    /\ UNCHANGED <<regVars, nworkers, callerVars, countVars, errSubmitted>>

\* run, lines 99-105: a 'stderr' event.
run_stderr(w) ==
    /\ w_state[w] = "loop"
    /\ rq[w] # <<>>
    /\ Head(rq[w]).action = "stderr"
    /\ LET payload == strip(Head(rq[w]).payload)
       IN IF payload = <<>>
          THEN /\ rq' = [rq EXCEPT ![w] = Tail(@)]
               /\ UNCHANGED <<w_state, wq, timeout, msg, prev_len, frame, term>>
          ELSE /\ rq' = [rq EXCEPT ![w] = Tail(@)]
               /\ term' = CHOOSE r \in { _write_stdout(t1, w, msg[w], 0) :
                                           t1 \in {_write_stderr(term, payload, prev_len[w])} } : TRUE
               /\ prev_len' = [prev_len EXCEPT ![w] = _text_len(stdout_text(w, msg[w]))]
               /\ frame' = [frame EXCEPT ![w] = (@ + 1) % NumFrames]
               /\ UNCHANGED <<w_state, wq, timeout, msg>>
    /\ UNCHANGED <<regVars, nworkers, callerVars, countVars, errSubmitted>>

\* run, lines 107-108: a 'stop' event, up to the final line's write.
run_stop(w) ==
    /\ w_state[w] = "loop"
    /\ rq[w] # <<>>
    /\ Head(rq[w]).action = "stop"
    /\ rq' = [rq EXCEPT ![w] = Tail(@)]
    /\ term' = _write_final(term, strip(Head(rq[w]).payload), prev_len[w])
    /\ w_state' = [w_state EXCEPT ![w] = "final"]
    /\ UNCHANGED <<wq, timeout, msg, prev_len, frame>>
    /\ UNCHANGED <<regVars, nworkers, callerVars, countVars, errSubmitted>>

\* run, line 109: self._wq.put('stop')
run_ack(w) ==
    /\ w_state[w] = "final"
    /\ wq' = [wq EXCEPT ![w] = Append(@, "stop")]
    /\ w_state' = [w_state EXCEPT ![w] = "acked"]
    /\ UNCHANGED <<regVars, nworkers, rq, timeout, msg, prev_len, frame, term,
                   callerVars, countVars, errSubmitted>>

\* run, line 110: break; run returns and the thread is no longer alive.
run_break(w) ==
    /\ w_state[w] = "acked"
    /\ w_state' = [w_state EXCEPT ![w] = "dead"]
    /\ UNCHANGED <<regVars, nworkers, rq, wq, timeout, msg, prev_len, frame, term,
                   callerVars, countVars, errSubmitted>>

\* run, lines 112-113: queue.Empty after .05 s without an event.
run_timeout(w) ==
    /\ w_state[w] = "loop"
    /\ rq[w] = <<>>
    /\ timeout[w]
    /\ nticks < MaxTicks
    /\ nticks' = nticks + 1
    /\ term' = _write_stdout(term, w, msg[w], prev_len[w])
    /\ frame' = [frame EXCEPT ![w] = (@ + 1) % NumFrames]
    /\ UNCHANGED <<w_state, rq, wq, timeout, msg, prev_len>>
    /\ UNCHANGED <<regVars, nworkers, callerVars, nstarts, nposts, nmisuse, nstops, with_color,
                   errSubmitted>>

\* ---------------------------------------------------------- specifications
\* The calls a thread makes between calls.  Spinner objects nest in a fixed
\* order (spinner 1 outermost); a stop out of LIFO order names any spinner but
\* the top one; messages are displayed and written while a spinner is started.
Calls(t) ==
    \/ \E s \in Spinners : s = Len(spinners) + 1 /\ start(t, s)
    \/ \E s \in Spinners, reason \in Reasons :
          s = Top /\ stop(t, s, reason)
    \/ \E s \in Spinners :
          s # Top /\ stop(t, s, "done")
    \/ \E text \in Payloads : spinners # <<>> /\ display(t, text)
    \/ \E stream \in Streams, text \in Payloads : write(t, stream, text)

\* The statements of register_spinner, deregister_spinner and display.
Steps(t) ==
    \/ reg_check(t) \/ reg_new(t) \/ reg_start(t) \/ reg_out(t) \/ reg_err(t)
    \/ reg_append(t)
    \/ disp_assert(t) \/ disp_put(t)
    \/ dereg_pop(t) \/ dereg_check(t) \/ dereg_stop(t) \/ dereg_wait(t)
    \/ dereg_out(t) \/ dereg_err(t) \/ dereg_clear(t) \/ dereg_display(t)

Worker(w) ==
    \/ run_stdout(w) \/ run_stderr(w) \/ run_stop(w) \/ run_ack(w) \/ run_break(w)
    \/ run_timeout(w)

\* One thread uses the spinners; the worker runs beside it.
Next ==
    \/ \E t \in SeqThreads : Calls(t) \/ Steps(t)
    \/ \E w \in WorkerIds : Worker(w)

Spec == Init /\ [][Next]_vars

\* Two threads, each with a spinner of its own that it starts and stops;
\* thread 2 also writes to sys.stderr while the interceptor is bound to it.
\* The animation tick, which touches only the worker's own variables and the
\* terminal, is left out.
RaceCalls(t) ==
    \/ start(t, t)
    \/ stop(t, t, "done")
    \/ t = 2 /\ write(t, "stderr", <<"a">>)

RaceWorker(w) ==
    \/ run_stdout(w) \/ run_stderr(w) \/ run_stop(w) \/ run_ack(w) \/ run_break(w)

RaceNext ==
    \/ \E t \in ConcThreads : RaceCalls(t) \/ Steps(t)
    \/ \E w \in WorkerIds : RaceWorker(w)

RaceSpec == Init /\ [][RaceNext]_vars

\* One thread that keeps to LIFO order and also writes to sys.stderr, under the scheduling Python gives: a
\* thread inside a call goes on, and a started worker thread runs.  Nothing
\* makes the caller call again.
FairCalls(t) ==
    \/ \E s \in Spinners : s = Len(spinners) + 1 /\ start(t, s)
    \/ \E s \in Spinners, reason \in Reasons : s = Top /\ stop(t, s, reason)
    \/ display(t, <<"a">>)
    \/ write(t, "stderr", <<"a", "b", "\n", "c">>)

FairNext ==
    \/ \E t \in SeqThreads : FairCalls(t) \/ Steps(t)
    \/ \E w \in WorkerIds : Worker(w)

Fairness ==
    /\ \A t \in SeqThreads : WF_vars(Steps(t))
    /\ \A w \in WorkerIds : WF_vars(Worker(w))

FairSpec == Init /\ [][FairNext]_vars /\ Fairness

\* The same, with real streams whose write may raise.  Nothing makes a write
\* fail.
FaultNext ==
    \/ \E t \in SeqThreads : FairCalls(t) \/ Steps(t)
    \/ \E w \in WorkerIds : Worker(w) \/ run_raise(w)

FaultSpec == Init /\ [][FaultNext]_vars /\ Fairness

\* One thread that uses the spinners through with-blocks only, which nest by
\* construction; the body displays, writes to sys.stderr, or is left by an
\* exception.
ScopeCalls(t) ==
    \/ \E s \in Spinners : s = Len(spinners) + 1 /\ __enter__(t, s)
    \/ \E s \in Spinners, exc_type \in ExcTypes : __exit__(t, s, exc_type)
    \/ \E text \in Payloads : spinners # <<>> /\ display(t, text)
    \/ write(t, "stderr", <<"a">>)

ScopeNext ==
    \/ \E t \in SeqThreads : ScopeCalls(t) \/ Steps(t)
    \/ \E w \in WorkerIds : Worker(w)

ScopeSpec == Init /\ [][ScopeNext]_vars

\* One thread with a ProgressSpinner (spinner 1) that it starts, updates and
\* stops; inside it the thread may nest a plain spinner and write to
\* sys.stderr.
ProgressCalls(t) ==
    \/ \E s \in Spinners : s = Len(spinners) + 1 /\ start(t, s)
    \/ \E s \in Spinners : s = Top /\ stop(t, s, "done")
    \/ \E count \in Counts, total \in Totals : spinners # <<>> /\ update(t, count, total)
    \/ write(t, "stderr", <<"a">>)

ProgressNext ==
    \/ \E t \in SeqThreads : ProgressCalls(t) \/ Steps(t)
    \/ \E w \in WorkerIds : Worker(w)

ProgressSpec == Init /\ [][ProgressNext]_vars

\* ------------------------------------------------------------------ claims
Idle(t) == pc[t] = "idle"

\* The workers whose thread is alive: started, and run has not returned.
Alive == {w \in WorkerIds : w_state[w] \in {"loop", "final", "acked"}}

\* C1: between calls, after start()/stop() calls made in LIFO order, a worker
\* is set in _GlobalOutput._spinner_thread if and only if _spinners is not empty.
C1_RegistryInvariant ==
    \A t \in SeqThreads :
        (Idle(t) /\ nmisuse = 0) => ((spinner_thread # 0) <=> (spinners # <<>>))

\* An inner spinner was stopped and the outer one is still registered.
C1_Witness ==
    /\ Idle(1) /\ nmisuse = 0
    /\ last[1].op = "stop" /\ last[1].ret = "ok"
    /\ Len(spinners) = 1 /\ spinner_thread # 0

\* C2: at most one worker thread is alive at any instant, whatever the
\* interleaving of the register_spinner and deregister_spinner calls of the threads.
C2_AtMostOneWorker == Cardinality(Alive) <= 1

\* C3: between calls, sys.stdout and sys.stderr are the interceptors if and
\* only if _spinners is not empty, and the real streams otherwise.
C3_InterceptorInvariant ==
    \A t \in SeqThreads :
        Idle(t) =>
            IF spinners # <<>>
            THEN sys_stdout = "fake" /\ sys_stderr = "fake"
            ELSE sys_stdout = "real" /\ sys_stderr = "real"

\* Every spinner that was started has been stopped, in LIFO order.
AllStopped ==
    /\ \A t \in SeqThreads : Idle(t)
    /\ nstarts >= 1 /\ nstops = nstarts /\ nmisuse = 0

\* C4: once N >= 1 spinners were started and stopped in LIFO order, the stack
\* is empty, no worker is set, the real streams are back, every worker has
\* left its loop, and its thread ends.
C4_LifoLeavesNothing ==
    /\ [](AllStopped =>
            /\ spinners = <<>> /\ spinner_thread = 0
            /\ sys_stdout = "real" /\ sys_stderr = "real"
            /\ \A w \in WorkerIds : w_state[w] \in {"none", "acked", "dead"})
    /\ \A w \in WorkerIds :
          (AllStopped /\ w_state[w] # "none") ~> (w_state[w] = "dead")

\* Two nested spinners were started and both stopped, the worker is gone.
C4_Witness ==
    /\ AllStopped /\ nstarts = 2 /\ nworkers = 1
    /\ w_state[1] = "dead"

\* C5: stop() on a spinner that is not on top of the stack, or was never
\* started, ends in a failed assertion.
C5_MisuseAsserts ==
    \A t \in SeqThreads :
        (Idle(t) /\ last[t].op = "stop" /\ ~last[t].lifo) => last[t].ret = "AssertionError"

\* A LIFO stop that leaves an outer spinner registered: at its pop, and after it.
InnerPop(t) == pc[t] = "dereg_pop" /\ Len(spinners) >= 2 /\ Top = arg[t].s
InnerStep(t) == pc[t] \in {"dereg_check", "dereg_display"} /\ spinners # <<>>

\* C6: stopping an inner spinner while an outer one is registered posts no
\* 'stop' event, leaves the same worker running and the interceptors bound,
\* and takes nothing but the inner spinner off the stack.
C6_InnerStopKeepsWorker ==
    [][\A t \in SeqThreads :
          (pc'[t] # pc[t] /\ (InnerPop(t) \/ InnerStep(t))) =>
              /\ spinner_thread # 0 /\ spinner_thread' = spinner_thread
              /\ w_state[spinner_thread] = "loop" /\ w_state' = w_state
              /\ sys_stdout = "fake" /\ sys_stdout' = "fake"
              /\ sys_stderr = "fake" /\ sys_stderr' = "fake"
              /\ spinners' = IF InnerPop(t)
                             THEN SubSeq(spinners, 1, Len(spinners) - 1)
                             ELSE spinners
              /\ \A w \in WorkerIds :
                    /\ \A i \in 1..Len(rq'[w]) : rq'[w][i].action # "stop"
                    /\ rq'[w] # rq[w] =>
                          /\ w = spinner_thread /\ pc[t] = "dereg_display"
                          /\ Len(rq'[w]) = Len(rq[w]) + 1
                          /\ rq'[w][Len(rq'[w])].action = "stdout"
              /\ pc'[t] = "idle" => last'[t].ret = "ok"
      ]_vars

\* The inner stop has returned and its message waits in the worker's queue.
C6_Witness ==
    /\ Idle(1) /\ last[1].op = "stop" /\ last[1].ret = "ok"
    /\ Len(spinners) = 1 /\ spinner_thread # 0
    /\ w_state[spinner_thread] = "loop"
    /\ rq[spinner_thread] # <<>>
    /\ rq[spinner_thread][Len(rq[spinner_thread])].payload = stop_msg(2, "fail")

\* What an outer spinner may have as its current message: its principal
\* message, with or without the dots, or a text it displayed.
OuterMessages(s) ==
    {message(s), message(s) \o <<".", ".", ".">>} \cup {strip(text) : text \in Payloads}

\* C7: once an inner spinner has stopped while an outer one is registered and
\* the worker has taken every event, the worker's current message is the
\* outer spinner's current message.
C7_OuterMessageReposted ==
    \A t \in SeqThreads :
        ( /\ Idle(t) /\ nmisuse = 0
          /\ last[t].op = "stop" /\ last[t].ret = "ok"
          /\ spinners # <<>> /\ spinner_thread # 0 )
        => (rq[spinner_thread] = <<>> => msg[spinner_thread] \in OuterMessages(Top))

IsPrefix(xs, ys) == Len(xs) <= Len(ys) /\ SubSeq(ys, 1, Len(xs)) = xs

\* C8: the final line is on the terminal before the worker's acknowledgement
\* is; the real streams are put back and the worker is discarded only once it
\* has acknowledged; nothing is written to the terminal while a real stream
\* is bound.
C8_ShutdownOrder ==
    /\ [](\A t \in SeqThreads :
             (pc[t] = "dereg_wait" /\ wq[arg[t].w] # <<>>) =>
                 /\ term.rows # <<>>
                 /\ term.rows[Len(term.rows)].by = "stdout"
                 /\ IsPrefix(_ANSI_REMOVER(strip(arg[t].msg)),
                             term.rows[Len(term.rows)].cells))
    /\ [][ /\ ( \/ (sys_stdout = "fake" /\ sys_stdout' = "real")
               \/ (sys_stderr = "fake" /\ sys_stderr' = "real")
               \/ (spinner_thread # 0 /\ spinner_thread' = 0) )
              => \A w \in WorkerIds : w_state[w] \in {"none", "acked", "dead"}
           /\ (term' # term) => (sys_stdout = "fake" /\ sys_stderr = "fake")
         ]_vars

\* The last spinner's stop has the acknowledgement before it.
C8_Witness ==
    /\ pc[1] = "dereg_wait" /\ wq[arg[1].w] # <<>>
    /\ nticks = 1 /\ nposts >= 1

\* C9: every call of the worker's stop(msg) returns.
C9_StopReturns ==
    \A t \in SeqThreads : (pc[t] = "dereg_wait") ~> (pc[t] # "dereg_wait")

\* The lines of a 'stderr' event: those of its stripped payload, none when
\* the payload is blank.
ErrLines(text) == IF strip(text) = <<>> THEN <<>> ELSE split(strip(text))

RECURSIVE AllErrLines(_)
AllErrLines(texts) ==
    IF texts = <<>> THEN <<>> ELSE ErrLines(Head(texts)) \o AllErrLines(Tail(texts))

\* The rows of the terminal that a write to stderr ended, without their
\* trailing blanks.
RECURSIVE StderrRows(_)
StderrRows(rows) ==
    IF rows = <<>> THEN <<>>
    ELSE IF Head(rows).by = "stderr"
         THEN <<rstrip(Head(rows).cells)>> \o StderrRows(Tail(rows))
         ELSE StderrRows(Tail(rows))

\* C10: when the worker has taken every event, the rows of the terminal that
\* stderr ended are the lines of the 'stderr' events, each on a row of its
\* own and in the order the events were posted, and none holds a spinner frame.
C10_StderrLines ==
    (\A w \in WorkerIds : rq[w] = <<>>) =>
        /\ LET want == AllErrLines(errSubmitted)
           IN StderrRows(term.rows) = [i \in 1..Len(want) |-> rstrip(want[i])]
        /\ \A i \in 1..Len(term.rows) :
              term.rows[i].by = "stderr" =>
                  \A j \in 1..Len(term.rows[i].cells) : term.rows[i].cells[j] \notin Glyphs

\* Nothing on the terminal came from the real stdout: the current row is
\* empty, and every row was ended by stderr and holds no spinner frame.
NoStdoutOutput ==
    /\ term.row = <<>>
    /\ \A i \in 1..Len(term.rows) :
          /\ term.rows[i].by = "stderr"
          /\ \A j \in 1..Len(term.rows[i].cells) : term.rows[i].cells[j] \notin Glyphs

\* C11: while the only worker has no message yet (no non-blank 'stdout' event
\* was taken), nothing has been written to the real stdout, whatever events
\* came first.
C11_NoFrameWithoutMessage ==
    \A w \in WorkerIds :
        (nworkers = 1 /\ w_state[w] = "loop" /\ msg[w] = <<>>) => NoStdoutOutput

\* The text of the carriage-return write the worker's next step makes: a
\* spinner frame on a 'stdout' event or a tick, the first write of a 'stderr'
\* event, the final line on a 'stop' event.
CRWrite(w) ==
    IF rq[w] = <<>>
    THEN _text_ljust(stdout_text(w, msg[w]), prev_len[w])
    ELSE IF Head(rq[w]).action = "stdout"
         THEN _text_ljust(stdout_text(w, strip(Head(rq[w]).payload)), prev_len[w])
         ELSE <<"\r">> \o _text_ljust(strip(Head(rq[w]).payload), prev_len[w]) \o <<"\n">>

\* The visible width a write that starts with "\r" puts on the current row.
WidthOnRow(out) == Len(_ANSI_REMOVER(Head(split(Tail(out)))))

\* C12: every carriage-return write of the worker puts on the current row,
\* padding included, at least the visible width of what the row showed.
C12_NoStaleCharacters ==
    [][\A w \in WorkerIds :
          (w_state[w] = "loop" /\ term' # term) =>
              WidthOnRow(CRWrite(w)) >= Len(rstrip(term.row))
      ]_vars

\* The reason a with-block is to stop its spinner with.
ScopeReason(exc_type) ==
    CASE exc_type = "None" -> "done"
      [] exc_type = "KeyboardInterrupt" -> "cancel"
      [] OTHER -> "fail"

\* C13: leaving a with-block deregisters its spinner once, with the final
\* line of the reason that belongs to the exception (done without one, cancel
\* for KeyboardInterrupt, fail for any other), and stop returns, so that the
\* exception goes on as it was.
C13_ScopedExit ==
    \A t \in SeqThreads :
        /\ (pc[t] \in {"dereg_pop", "dereg_check", "dereg_stop", "dereg_wait", "dereg_display"}) =>
              arg[t].msg = stop_msg(arg[t].s, ScopeReason(last[t].exc))
        /\ Idle(t) =>
              /\ nstops = nstarts - Len(spinners)
              /\ \A i \in 1..Len(spinners) : spinners[i] = i
              /\ last[t].op = "exit" => last[t].ret = "ok"

\* A with-block nested in another was left by KeyboardInterrupt.
C13_Witness ==
    /\ Idle(1) /\ last[1].op = "exit" /\ last[1].exc = "KeyboardInterrupt"
    /\ last[1].ret = "ok"
    /\ nstarts = 2 /\ nstops = 1 /\ spinners = <<1>>

\* The final line of a spinner as the terminal shows it: the status marker of
\* the reason, the status word, the principal message and a full stop.
FinalLine(s, reason) ==
    (CASE reason = "done" -> <<"OK", " ", "D", "O", "N", "E", " ">>
       [] reason = "fail" -> <<"XX", " ", "F", "A", "I", "L", "E", "D", " ">>
       [] reason = "cancel" -> <<"!", " ", "C", "A", "N", "C", "E", "L", "E", "D", " ">>)
    \o message(s) \o <<".">>

\* C14: whatever was displayed in between, the final line the worker writes
\* when the last spinner stops is the marker and the word of the reason
\* followed by the spinner's principal message and a full stop.
C14_FinalLine ==
    \A t \in SeqThreads :
        (pc[t] = "dereg_wait" /\ w_state[arg[t].w] \in {"final", "acked"}) =>
            /\ \E reason \in Reasons : arg[t].msg = stop_msg(arg[t].s, reason)
            /\ \A reason \in Reasons :
                  arg[t].msg = stop_msg(arg[t].s, reason) =>
                      /\ term.rows # <<>>
                      /\ term.rows[Len(term.rows)].by = "stdout"
                      /\ rstrip(term.rows[Len(term.rows)].cells) = FinalLine(arg[t].s, reason)

\* A spinner that displayed two texts was stopped with reason fail, and its
\* final line is written.
C14_Witness ==
    /\ pc[1] = "dereg_wait" /\ w_state[arg[1].w] = "final"
    /\ nposts = 2 /\ errSubmitted = <<>>
    /\ arg[1].msg = stop_msg(1, "fail")
    /\ msg[arg[1].w] = <<"a", "b", "\n", "c">>

\* C15: the message update(count, total) posts carries the percentage
\* floor(100 * running total / total) of the counts accumulated so far.
C15_PercentPrefix ==
    \A t \in SeqThreads :
        (pc[t] \in {"disp_assert", "disp_put"} /\ last[t].op = "update" /\ last[t].total # 0) =>
            arg[t].msg = format_perc((100 * current) \div last[t].total, message(1))
                            \o <<".", ".", ".">>

\* The worker w takes a 'stderr' event whose payload is not blank.
TakesStderr(w) ==
    /\ w_state[w] = "loop" /\ rq[w] # <<>>
    /\ Head(rq[w]).action = "stderr"
    /\ strip(Head(rq[w]).payload) # <<>>
    /\ rq'[w] = Tail(rq[w])

\* C16: a 'stderr' event of n lines adds exactly n rows to the terminal, all
\* ended by stderr: the first begins with the payload's first line, the i-th
\* is the payload's i-th line.
C16_StderrOncePerLine ==
    [][\A w \in WorkerIds :
          TakesStderr(w) =>
              LET lines == split(strip(Head(rq[w]).payload))
                  added == SubSeq(term'.rows, Len(term.rows) + 1, Len(term'.rows))
              IN /\ Len(added) = Len(lines)
                 /\ \A i \in 1..Len(added) :
                       /\ added[i].by = "stderr"
                       /\ IF i = 1 THEN IsPrefix(lines[1], added[1].cells)
                          ELSE added[i].cells = lines[i]
      ]_vars

\* What the next spinner frame of worker w looks like on an empty terminal.
FreshFrame(w) == TermWrite(TermInit, "stdout", <<chars[frame[w] + 1], " ">> \o msg[w])

\* The last n elements of a sequence.
LastRows(rows, n) == SubSeq(rows, Len(rows) - n + 1, Len(rows))

\* C17: a 'stderr' event that is not blank leaves the worker's message and
\* its timeout alone and ends with the next frame of that message alone on a
\* fresh row, without padding; a tick renders the next frame of the same
\* message.
C17_StderrKeepsMessage ==
    [][\A w \in WorkerIds :
          /\ TakesStderr(w) =>
                /\ msg'[w] = msg[w] /\ timeout'[w] = timeout[w]
                /\ term'.row = FreshFrame(w).row
                /\ Len(term'.rows) >= Len(term.rows) + Len(FreshFrame(w).rows) + 1
                /\ LastRows(term'.rows, Len(FreshFrame(w).rows)) = FreshFrame(w).rows
                /\ LastRows(term'.rows, Len(FreshFrame(w).rows) + 1)[1].by = "stderr"
          /\ (w_state[w] = "loop" /\ rq[w] = <<>> /\ nticks' = nticks + 1) =>
                /\ msg'[w] = msg[w]
                /\ IsPrefix(FreshFrame(w).row, term'.row)
      ]_vars

\* A 'stderr' event and a tick were taken while the spinner shows its message.
C17_Witness ==
    /\ errSubmitted = << <<"a">> >> /\ nticks = 1 /\ nposts = 1
    /\ spinner_thread = 1 /\ rq[1] = <<>> /\ w_state[1] = "loop"
    /\ msg[1] = message(1) \o <<".", ".", ".">>
    /\ term.rows # <<>> /\ term.rows[Len(term.rows)].by = "stderr"

\* The worker w takes a 'stdout' event.
TakesStdout(w) ==
    /\ w_state[w] = "loop" /\ rq[w] # <<>>
    /\ Head(rq[w]).action = "stdout"
    /\ rq'[w] = Tail(rq[w])

\* C18: a blank 'stdout' event writes nothing and leaves the message and the
\* remembered width alone; any other one makes its stripped payload the
\* message and renders it at once with the next frame.
C18_BlankStdoutNoOp ==
    [][\A w \in WorkerIds :
          TakesStdout(w) =>
              LET payload == strip(Head(rq[w]).payload)
                  shown == TermWrite(TermInit, "stdout", <<chars[frame[w] + 1], " ">> \o payload)
              IN IF payload = <<>>
                 THEN /\ term' = term
                      /\ msg'[w] = msg[w] /\ prev_len'[w] = prev_len[w]
                      /\ frame'[w] = frame[w]
                 ELSE /\ msg'[w] = payload
                      /\ frame'[w] = (frame[w] + 1) % NumFrames
                      /\ Len(term'.rows) = Len(term.rows) + Len(shown.rows)
                      /\ \A i \in 1..Len(shown.rows) :
                            IsPrefix(shown.rows[i].cells, term'.rows[Len(term.rows) + i].cells)
                      /\ IsPrefix(shown.row, term'.row)
      ]_vars

\* The one event posted after the principal message was a blank 'stdout'
\* event, and the worker has taken it.
C18_Witness ==
    /\ Idle(1) /\ nposts = 1 /\ errSubmitted = <<>> /\ nticks = 0 /\ nstops = 0
    /\ spinner_thread = 1 /\ rq[1] = <<>> /\ w_state[1] = "loop"
    /\ spinners = <<1>>
    /\ msg[1] = message(1) \o <<".", ".", ".">> /\ frame[1] = 1

\* C19: a deregister_spinner call that fails its check of the top of the
\* stack leaves the stack, the worker and the interceptors as they were.
C19_FailedStopChangesNothing ==
    [][\A t \in SeqThreads :
          (pc[t] = "dereg_pop" /\ pc'[t] = "idle" /\ last'[t].ret # "ok") =>
              /\ spinners' = spinners
              /\ spinner_thread' = spinner_thread
              /\ sys_stdout' = sys_stdout /\ sys_stderr' = sys_stderr
      ]_vars

\* C20: a worker that has acknowledged the stop, or has ended, has no event
\* left in its queue: whatever was posted to it was taken.
C20_NoEventLost ==
    \A w \in WorkerIds : w_state[w] \in {"acked", "dead"} => rq[w] = <<>>

\* C21: when a thread that called write on an interceptor reaches the
\* assertion of _GlobalOutput.display, a worker is set, so the assertion holds.
C21_WriteAssertHolds ==
    \A t \in ConcThreads :
        (pc[t] = "disp_assert" /\ arg[t].s = 0 /\ arg[t].stream = "stderr") =>
            spinner_thread # 0

====
